---- MODULE Spec2Model ----
(***************************************************************************)
(* State-machine model of ResearchProgressView (src/unnamed/part_000):     *)
(* the React component that merges the polled research status (useQuery)   *)
(* with the WebSocket research state (useProjectWebSocket) and shows a     *)
(* progress value guarded by maxProgressRef.                               *)
(*                                                                         *)
(* One render of the component body is the operator Render;  every action  *)
(* that changes a value the component reads ends with that render.  The    *)
(* mount effect (useEffect, lines 212-218) runs after the render that      *)
(* scheduled it, so it is an action of its own, and no other action runs   *)
(* while it is pending.                                                    *)
(*                                                                         *)
(* Progress values are held in fifths of a percent (Pct(5) is 5%), which   *)
(* keeps 5 + min(f/50,1)*20 and 25 + min(g/25,1)*50 exact on integers.     *)
(***************************************************************************)
EXTENDS Integers, Sequences, FiniteSets, TLC

\* ---------------------------------------------------------------- bounds
MaxLogs == 2
MaxPulls == 2
MaxEstCount == 52
MaxStops == 2

\* ---------------------------------------------------------------- domains
Projects == {"p1", "p2"}
Phases == {"idle", "scanning", "analyzing", "documenting", "complete"}
FilesValues == {0, 25}
FindingsValues == {0, 3}
Fields == {"phase", "files_scanned", "findings_count", "finalized"}

\* undefined / null of a JavaScript object-valued variable
Undefined == [undefined |-> TRUE]

\* a pulled status body with every field present; finalized is reported
\* once the phase is complete and the counters are final
FullStatus ==
  {s \in [phase: Phases, files_scanned: FilesValues,
          findings_count: FindingsValues, finalized: BOOLEAN] :
     s.finalized => (s.phase = "complete" /\ s.files_scanned = 25 /\ s.findings_count = 3)}

\* the same body with one field absent
Without(s, f) == [k \in (DOMAIN s) \ {f} |-> s[k]]

PartialStatus ==
  {Without(s, f) : s \in {t \in FullStatus : /\ t.phase = "analyzing"
                                             /\ t.files_scanned = 25
                                             /\ t.findings_count = 3
                                             /\ ~t.finalized},
                   f \in Fields}

StatusBodies == FullStatus \cup PartialStatus

\* research_update messages of the push channel
PushMessages ==
  { [phase |-> "scanning",  files_scanned |-> 999, findings_count |-> 0,
     message |-> "a", eventType |-> "tool_use", timestamp |-> 3, tool |-> "Read"],
    [phase |-> "analyzing", files_scanned |-> 999, findings_count |-> 999,
     message |-> "b", eventType |-> "tool_error", timestamp |-> 1, tool |-> "null"] }

\* ---------------------------------------------------------------- helpers
Pct(x) == 5 * x

Min2(a, b) == IF a < b THEN a ELSE b

\* a ?? d on an optional field of a JSON object
Get(s, f, d) == IF f \in DOMAIN s THEN s[f] ELSE d

IsPrefix(s, t) == Len(s) <= Len(t) /\ SubSeq(t, 1, Len(s)) = s

\* ---------------------------------------------------------------- PHASE_CONFIG
PHASE_CONFIG ==
  [idle        |-> [progressMin |-> Pct(0),   progressMax |-> Pct(5)],
   scanning    |-> [progressMin |-> Pct(5),   progressMax |-> Pct(25)],
   analyzing   |-> [progressMin |-> Pct(25),  progressMax |-> Pct(75)],
   documenting |-> [progressMin |-> Pct(75),  progressMax |-> Pct(95)],
   complete    |-> [progressMin |-> Pct(100), progressMax |-> Pct(100)]]

\* ---------------------------------------------------------------- calculateProgress
\* calculateProgress with the scan estimate normalised by 100 files
calculateProgress_ScanNorm100(phase, filesScanned, findingsCount) ==
  CASE phase = "idle"        -> Pct(5)
    [] phase = "scanning"    -> Pct(5) + Min2((filesScanned * Pct(20)) \div 100, Pct(20))
    [] phase = "analyzing"   -> Pct(25) + Min2((findingsCount * Pct(50)) \div 25, Pct(50))
    [] phase = "documenting" -> Pct(85)
    [] phase = "complete"    -> Pct(100)

\* calculateProgress with the findings estimate normalised by 50 findings
calculateProgress_FindingsNorm50(phase, filesScanned, findingsCount) ==
  CASE phase = "idle"        -> Pct(5)
    [] phase = "scanning"    -> Pct(5) + Min2((filesScanned * Pct(20)) \div 50, Pct(20))
    [] phase = "analyzing"   -> Pct(25) + Min2((findingsCount * Pct(50)) \div 50, Pct(50))
    [] phase = "documenting" -> Pct(85)
    [] phase = "complete"    -> Pct(100)

\* calculateProgress without the Math.min clamps
calculateProgress_NoClamp(phase, filesScanned, findingsCount) ==
  CASE phase = "idle"        -> Pct(5)
    [] phase = "scanning"    -> Pct(5) + (filesScanned * Pct(20)) \div 50
    [] phase = "analyzing"   -> Pct(25) + (findingsCount * Pct(50)) \div 25
    [] phase = "documenting" -> Pct(85)
    [] phase = "complete"    -> Pct(100)

\* the estimator with documenting placed at 70
calculateProgress_Documenting70(phase, filesScanned, findingsCount) ==
  CASE phase = "idle"        -> Pct(5)
    [] phase = "scanning"    -> Pct(5) + Min2((filesScanned * Pct(20)) \div 50, Pct(20))
    [] phase = "analyzing"   -> Pct(25) + Min2((findingsCount * Pct(50)) \div 25, Pct(50))
    [] phase = "documenting" -> Pct(70)
    [] phase = "complete"    -> Pct(100)
    [] OTHER -> (PHASE_CONFIG[phase].progressMin + PHASE_CONFIG[phase].progressMax) \div 2

calculateProgress(phase, filesScanned, findingsCount) ==
  CASE phase = "idle"        -> Pct(5)
    [] phase = "scanning"    -> Pct(5) + Min2((filesScanned * Pct(20)) \div 50, Pct(20))
    [] phase = "analyzing"   -> Pct(25) + Min2((findingsCount * Pct(50)) \div 25, Pct(50))
    [] phase = "documenting" -> Pct(85)
    [] phase = "complete"    -> Pct(100)
    [] OTHER -> (PHASE_CONFIG[phase].progressMin + PHASE_CONFIG[phase].progressMax) \div 2

\* ---------------------------------------------------------------- branch names
\* a name is the sequence of its characters; null is NoBranch
NoBranch == << "null" >>

Whitespace == {" ", "\t"}

RECURSIVE TrimStart(_)
TrimStart(s) == IF s = << >> \/ Head(s) \notin Whitespace THEN s ELSE TrimStart(Tail(s))

RECURSIVE TrimEnd(_)
TrimEnd(s) ==
  IF s = << >> \/ s[Len(s)] \notin Whitespace THEN s ELSE TrimEnd(SubSeq(s, 1, Len(s) - 1))

\* String.prototype.trim
Trim(s) == TrimEnd(TrimStart(s))

StartsWith(s, p) == Len(p) <= Len(s) /\ SubSeq(s, 1, Len(p)) = p
EndsWith(s, p) == Len(p) <= Len(s) /\ SubSeq(s, Len(s) - Len(p) + 1, Len(s)) = p
Includes(s, p) == \E i \in 1..(Len(s) - Len(p) + 1) : SubSeq(s, i, i + Len(p) - 1) = p

NAME_LIMIT == 250

\* the character class of line 77
InvalidChars == Whitespace \cup {"~", "^", ":", "?", "*", "[", "]", "\\"}

\* lines 74-91
isValidBranchName(name) ==
  /\ ~(name = << >> \/ Len(name) > NAME_LIMIT)
  /\ ~(\E i \in 1..Len(name) : name[i] \in InvalidChars)
  /\ ~(\/ StartsWith(name, << "/" >>)
       \/ EndsWith(name, << "/" >>)
       \/ Includes(name, << "/", "/" >>)
       \/ EndsWith(name, << ".", "l", "o", "c", "k" >>)
       \/ name = << "." >>
       \/ name = << ".", "." >>
       \/ StartsWith(name, << "-" >>))

\* the branches of the repository
BranchNames == { << "m" >>, << "d" >>, << "r" >> }

\* responses of listBranches
BranchDataSet ==
  [branches: {BranchNames},
   current_branch: { << "m" >>, << "d" >> },
   protected_branches: { {<< "m" >>}, {<< "m" >>, << "r" >>} }]

\* the name suggestBranchName proposes when the modal opens
SuggestedName == << "f", "/", "p" >>

\* texts typed into the name input
NameInputs ==
  { << " " >>, << "x" >>, << " ", "x", " " >>, << "d" >>, << " ", "d" >>,
    << "x", " ", "y" >>, << "x", "/", "/", "y" >>,
    << "x", ".", "l", "o", "c", "k" >>, << "-", "x" >>, << "x", "/" >>, << ".", "." >> }

\* what a modal step called
Emit(kind, arg) == [kind |-> kind, arg |-> arg]
NoEmit == Emit("none", NoBranch)

\* ---------------------------------------------------------------- state
VARIABLES
  mounted,          \* the component is mounted
  projectName,      \* the projectName prop
  effectPending,    \* the mount effect is scheduled and has not run yet
  maxProgressRef,   \* maxProgressRef.current
  progress,         \* the progress value of the last render
  apiStatus,        \* useQuery data of ['researchStatus', projectName]
  wsResearchState,  \* researchState of useProjectWebSocket
  isConnected,      \* isConnected of useProjectWebSocket
  reqSeq,           \* number of status requests issued in this session
  inflight,         \* status requests of the observed query that are in flight
  lastApplied,      \* request whose response is the current apiStatus (0: none)
  latePull,         \* status request of an earlier session: "none", "inflight", "discarded"
  latePush,         \* message on the socket of an earlier session: "none", "inflight", "discarded"
  replayPending,    \* the socket reconnected and recorded events may be sent again
  isStopping,       \* the isStopping state of the view
  stopInflight,     \* stop requests sent and not yet answered
  stopOutcome,      \* how the last answered stop request ended: "none", "ok", "not_ok", "throw"
  location,         \* the route shown: "progress" or "project"
  isOpen,           \* the isOpen prop of BranchSelectionModal
  step,             \* "select" or "create"
  selectedBranch,   \* a branch name, NoBranch for null
  newBranchName,    \* the text of the name input
  error,            \* the error shown, "none" for null
  showProtectedConfirm, \* the confirmation prompt is shown
  branchData,       \* data of the branches query, Undefined while not loaded
  createPending,    \* the name sent in the pending create request, NoBranch for none
  checkoutPending,  \* the branch of the pending checkout request, NoBranch for none
  emitted,          \* what the last modal step called: callback or request, with its argument
  estPhase,         \* calculateProgress call: phase argument
  estFiles,         \* calculateProgress call: filesScanned argument
  estFindings,      \* calculateProgress call: findingsCount argument
  estResult         \* calculateProgress call: returned value (-1 before the call)

\* the variables of a stand-alone calculateProgress call
estVars == <<estPhase, estFiles, estFindings, estResult>>

stopVars == <<isStopping, stopInflight, stopOutcome, location>>

modalVars == <<isOpen, step, selectedBranch, newBranchName, error, showProtectedConfirm,
               branchData, createPending, checkoutPending, emitted>>

vars == <<mounted, projectName, effectPending, maxProgressRef, progress,
          apiStatus, wsResearchState, isConnected, reqSeq, inflight,
          lastApplied, latePull, latePush, replayPending, estVars, stopVars, modalVars>>

viewVars == <<mounted, projectName, effectPending, maxProgressRef, progress,
              apiStatus, wsResearchState, isConnected, reqSeq, inflight,
              lastApplied, latePull, latePush, replayPending>>

\* the modal before it was ever opened
ModalClosed ==
  /\ isOpen = FALSE
  /\ step = "select"
  /\ selectedBranch = NoBranch
  /\ newBranchName = << >>
  /\ error = "none"
  /\ showProtectedConfirm = FALSE
  /\ branchData = Undefined
  /\ createPending = NoBranch
  /\ checkoutPending = NoBranch
  /\ emitted = NoEmit

\* ---------------------------------------------------------------- render
\* the merge with the push counters preferred over the pulled ones
MergeState_PushCounters(api, ws) ==
  LET apiState ==
        IF api # Undefined
        THEN [phase         |-> Get(api, "phase", "idle"),
              filesScanned  |-> IF ws # Undefined THEN ws.filesScanned
                                ELSE Get(api, "files_scanned", 0),
              findingsCount |-> Get(api, "findings_count", 0),
              finalized     |-> Get(api, "finalized", FALSE),
              currentTool   |-> IF ws # Undefined THEN ws.currentTool ELSE "null",
              logs          |-> IF ws # Undefined THEN ws.logs ELSE << >>]
        ELSE Undefined
  IN IF apiState = Undefined /\ ws # Undefined
     THEN [ws EXCEPT !.filesScanned = 0, !.findingsCount = 0]
     ELSE apiState

\* the merge whose fallback returns the push state with its own counters
MergeState_RawFallback(api, ws) ==
  LET apiState ==
        IF api # Undefined
        THEN [phase         |-> Get(api, "phase", "idle"),
              filesScanned  |-> Get(api, "files_scanned", 0),
              findingsCount |-> Get(api, "findings_count", 0),
              finalized     |-> Get(api, "finalized", FALSE),
              currentTool   |-> IF ws # Undefined THEN ws.currentTool ELSE "null",
              logs          |-> IF ws # Undefined THEN ws.logs ELSE << >>]
        ELSE Undefined
  IN IF apiState = Undefined /\ ws # Undefined THEN ws ELSE apiState

\* the merge whose API branch leaves the logs empty
MergeState_ApiDropsLogs(api, ws) ==
  LET apiState ==
        IF api # Undefined
        THEN [phase         |-> Get(api, "phase", "idle"),
              filesScanned  |-> Get(api, "files_scanned", 0),
              findingsCount |-> Get(api, "findings_count", 0),
              finalized     |-> Get(api, "finalized", FALSE),
              currentTool   |-> IF ws # Undefined THEN ws.currentTool ELSE "null",
              logs          |-> << >>]
        ELSE Undefined
  IN IF apiState = Undefined /\ ws # Undefined
     THEN [ws EXCEPT !.filesScanned = 0, !.findingsCount = 0]
     ELSE apiState

\* the merge that prefers the pushed phase over the pulled one
MergeState_PushPhase(api, ws) ==
  LET apiState ==
        IF api # Undefined
        THEN [phase         |-> IF ws # Undefined THEN ws.phase ELSE Get(api, "phase", "idle"),
              filesScanned  |-> Get(api, "files_scanned", 0),
              findingsCount |-> Get(api, "findings_count", 0),
              finalized     |-> Get(api, "finalized", FALSE),
              currentTool   |-> IF ws # Undefined THEN ws.currentTool ELSE "null",
              logs          |-> IF ws # Undefined THEN ws.logs ELSE << >>]
        ELSE Undefined
  IN IF apiState = Undefined /\ ws # Undefined
     THEN [ws EXCEPT !.filesScanned = 0, !.findingsCount = 0]
     ELSE apiState

\* the merge of lines 233-255
MergeState(api, ws) ==
  LET apiState ==
        IF api # Undefined
        THEN [phase         |-> Get(api, "phase", "idle"),
              filesScanned  |-> Get(api, "files_scanned", 0),
              findingsCount |-> Get(api, "findings_count", 0),
              finalized     |-> Get(api, "finalized", FALSE),
              currentTool   |-> IF ws # Undefined THEN ws.currentTool ELSE "null",
              logs          |-> IF ws # Undefined THEN ws.logs ELSE << >>]
        ELSE Undefined
  IN IF apiState = Undefined /\ ws # Undefined
     THEN [ws EXCEPT !.filesScanned = 0, !.findingsCount = 0]
     ELSE apiState

researchState == MergeState(apiStatus, wsResearchState)

PhaseOf(rs) == IF rs # Undefined THEN rs.phase ELSE "idle"
FilesOf(rs) == IF rs # Undefined THEN rs.filesScanned ELSE 0
FindingsOf(rs) == IF rs # Undefined THEN rs.findingsCount ELSE 0
LogsOf(rs) == IF rs # Undefined THEN rs.logs ELSE << >>
ToolOf(rs) == IF rs # Undefined THEN rs.currentTool ELSE "null"

currentPhase == PhaseOf(researchState)

RawOf(rs) == calculateProgress(PhaseOf(rs), FilesOf(rs), FindingsOf(rs))

rawProgress == RawOf(researchState)

\* line 311
isComplete == currentPhase = "complete"

\* the button of lines 337-356
ActionButton == IF isComplete THEN "View Results" ELSE "Stop Analysis"

\* the reset test of line 301
ResetDetected(rs) ==
  PhaseOf(rs) = "idle" \/ (PhaseOf(rs) = "scanning" /\ FindingsOf(rs) = 0)

\* the guard that resets on every scanning render, whatever findingsCount is
Guard_ResetAnyScanning(max, rs) ==
  LET afterReset == IF PhaseOf(rs) = "idle" \/ PhaseOf(rs) = "scanning" THEN 0 ELSE max
  IN IF RawOf(rs) > afterReset THEN RawOf(rs) ELSE afterReset

\* the guard that stops after a reset: the raw value is not stored
Guard_ResetSkipsRaise(max, rs) ==
  IF ResetDetected(rs) THEN 0
  ELSE IF RawOf(rs) > max THEN RawOf(rs) ELSE max

\* the guard without the comparison: the ref follows the raw value
Guard_NoMax(max, rs) == RawOf(rs)

\* lines 301-309: the value of maxProgressRef.current after one render
Guard(max, rs) ==
  LET afterReset == IF ResetDetected(rs) THEN 0 ELSE max
  IN IF RawOf(rs) > afterReset THEN RawOf(rs) ELSE afterReset

\* one render of the component body with the given inputs
Render(api, ws) ==
  /\ maxProgressRef' = Guard(maxProgressRef, MergeState(api, ws))
  /\ progress' = maxProgressRef'

\* ---------------------------------------------------------------- push channel
\* the log entry recorded for a research_update message
LogEntry(m) == [timestamp |-> m.timestamp, eventType |-> m.eventType, message |-> m.message]

\* research_update handling of useWebSocket: phase and counters are replaced,
\* the entry is appended to the logs
ApplyMessage(ws, m) ==
  [phase         |-> m.phase,
   filesScanned  |-> m.files_scanned,
   findingsCount |-> m.findings_count,
   currentTool   |-> m.tool,
   logs          |-> Append(IF ws # Undefined THEN ws.logs ELSE << >>, LogEntry(m))]

\* ---------------------------------------------------------------- pull channel
\* a query that also waits for the socket
QueryEnabled_NeedsSocket(name, connected) == name # "" /\ connected

\* enabled: !!projectName
QueryEnabled(name, connected) == name # ""

\* useQuery keeps one fetch per query: a refetch tick while a fetch is in
\* flight starts no second request
CanStartFetch_NoDedupe(reqs) == TRUE

CanStartFetch(reqs) == reqs = {}

\* responses of requests that belong to a query key that is no longer
\* observed do not reach the observed query's data
AcceptLate_SharedKey(api, body) == body

AcceptLate(api, body) == api

\* ---------------------------------------------------------------- one event on a given state
\* what the component holds between events
Held(api, ws, max) == [api |-> api, ws |-> ws, max |-> max]

\* a pulled body applied to a held state, with the render that follows
AfterPull(st, body) ==
  Held(body, st.ws, Guard(st.max, MergeState(body, st.ws)))

\* a pushed message applied to a held state, with the render that follows
AfterPush(st, m) ==
  LET w == ApplyMessage(st.ws, m)
  IN Held(st.api, w, Guard(st.max, MergeState(st.api, w)))

\* what the render of a held state shows
Shown(st) == [state |-> MergeState(st.api, st.ws), progress |-> st.max]

\* ---------------------------------------------------------------- Init
Init ==
  /\ mounted = FALSE
  /\ projectName \in Projects
  /\ effectPending = FALSE
  /\ maxProgressRef = 0
  /\ progress = 0
  /\ apiStatus = Undefined
  /\ wsResearchState = Undefined
  /\ isConnected = FALSE
  /\ reqSeq = 0
  /\ inflight = {}
  /\ lastApplied = 0
  /\ latePull = "none"
  /\ latePush = "none"
  /\ replayPending = FALSE
  /\ isStopping = FALSE
  /\ stopInflight = 0
  /\ stopOutcome = "none"
  /\ location = "progress"
  /\ ModalClosed
  /\ estPhase = "idle"
  /\ estFiles = 0
  /\ estFindings = 0
  /\ estResult = -1

\* ---------------------------------------------------------------- lifecycle
\* first render of a new component instance for project p; the query
\* observer starts the first fetch, the mount effect is scheduled
Mount(p) ==
  /\ ~mounted
  /\ mounted' = TRUE
  /\ projectName' = p
  /\ apiStatus' = Undefined
  /\ wsResearchState' = Undefined
  /\ isConnected' = FALSE
  /\ maxProgressRef' = Guard(0, MergeState(Undefined, Undefined))
  /\ progress' = maxProgressRef'
  /\ effectPending' = TRUE
  /\ reqSeq' = 1
  /\ inflight' = {1}
  /\ lastApplied' = 0
  /\ UNCHANGED <<latePull, latePush>>
  /\ replayPending' = FALSE
  /\ UNCHANGED estVars
  /\ UNCHANGED modalVars
  /\ UNCHANGED stopVars

\* the projectName prop changes on the mounted instance: the query key
\* changes (no data for the new key), the hook state and the ref are those
\* of the previous render, the body renders, the effect is scheduled
ChangeProject(p) ==
  /\ mounted /\ ~effectPending
  /\ p # projectName
  /\ projectName' = p
  /\ apiStatus' = Undefined
  /\ Render(Undefined, wsResearchState)
  /\ effectPending' = TRUE
  /\ isConnected' = FALSE
  /\ reqSeq' = 1
  /\ inflight' = {1}
  /\ lastApplied' = 0
  /\ latePull' = IF inflight # {} THEN "inflight" ELSE latePull
  /\ latePush' = IF isConnected THEN "inflight" ELSE latePush
  /\ UNCHANGED <<mounted, wsResearchState>>
  /\ replayPending' = FALSE
  /\ UNCHANGED estVars
  /\ UNCHANGED modalVars
  /\ UNCHANGED stopVars

\* the effect of lines 213-218: maxProgressRef.current = 0,
\* clearResearchState(), invalidateQueries(); the state change of
\* clearResearchState re-renders the body
\* an effect that runs after every render
EffectDepsChanged_Always(oldName, newName) == TRUE

\* the dependency list of line 218: the effect runs again when projectName
\* changed; clearResearchState and queryClient keep their identity
EffectDepsChanged(oldName, newName) == oldName # newName

\* the parent renders the view again with the same projectName
Rerender ==
  /\ mounted /\ ~effectPending
  /\ Render(apiStatus, wsResearchState)
  /\ effectPending' = EffectDepsChanged(projectName, projectName)
  /\ UNCHANGED <<mounted, projectName, apiStatus, wsResearchState, isConnected,
                 reqSeq, inflight, lastApplied, latePull, latePush>>
  /\ UNCHANGED replayPending
  /\ UNCHANGED estVars
  /\ UNCHANGED modalVars
  /\ UNCHANGED stopVars

RunEffect ==
  /\ mounted /\ effectPending
  /\ effectPending' = FALSE
  /\ wsResearchState' = Undefined
  /\ IF wsResearchState # Undefined
     THEN /\ maxProgressRef' = Guard(0, MergeState(apiStatus, Undefined))
          /\ progress' = maxProgressRef'
     ELSE /\ maxProgressRef' = 0
          /\ progress' = progress
  /\ IF CanStartFetch(inflight) /\ reqSeq < MaxPulls
     THEN /\ reqSeq' = reqSeq + 1
          /\ inflight' = inflight \cup {reqSeq + 1}
     ELSE UNCHANGED <<reqSeq, inflight>>
  /\ UNCHANGED <<mounted, projectName, apiStatus, isConnected, lastApplied,
                 latePull, latePush>>
  /\ replayPending' = FALSE
  /\ UNCHANGED estVars
  /\ UNCHANGED modalVars
  /\ UNCHANGED stopVars

\* the component unmounts: its state, ref and hook state are gone
Unmount ==
  /\ mounted /\ ~effectPending
  /\ mounted' = FALSE
  /\ maxProgressRef' = 0
  /\ progress' = 0
  /\ apiStatus' = Undefined
  /\ wsResearchState' = Undefined
  /\ isConnected' = FALSE
  /\ reqSeq' = 0
  /\ inflight' = {}
  /\ lastApplied' = 0
  /\ latePull' = IF inflight # {} THEN "inflight" ELSE latePull
  /\ latePush' = IF isConnected THEN "inflight" ELSE latePush
  /\ UNCHANGED <<projectName, effectPending>>
  /\ replayPending' = FALSE
  /\ UNCHANGED estVars
  /\ UNCHANGED modalVars
  /\ UNCHANGED stopVars

\* ---------------------------------------------------------------- pull actions
\* refetchInterval tick
PullTick ==
  /\ mounted /\ ~effectPending
  /\ QueryEnabled(projectName, isConnected)
  /\ CanStartFetch(inflight)
  /\ reqSeq < MaxPulls
  /\ reqSeq' = reqSeq + 1
  /\ inflight' = inflight \cup {reqSeq + 1}
  /\ UNCHANGED <<mounted, projectName, effectPending, maxProgressRef, progress,
                 apiStatus, wsResearchState, isConnected, lastApplied,
                 latePull, latePush>>
  /\ UNCHANGED replayPending
  /\ UNCHANGED estVars
  /\ UNCHANGED modalVars
  /\ UNCHANGED stopVars

\* fetchResearchStatus resolves with body: data changes, the body renders
PullSuccess(id, body) ==
  /\ mounted /\ ~effectPending
  /\ id \in inflight
  /\ inflight' = inflight \ {id}
  /\ apiStatus' = body
  /\ lastApplied' = id
  /\ Render(body, wsResearchState)
  /\ UNCHANGED <<mounted, projectName, effectPending, wsResearchState,
                 isConnected, reqSeq, latePull, latePush>>
  /\ UNCHANGED replayPending
  /\ UNCHANGED estVars
  /\ UNCHANGED modalVars
  /\ UNCHANGED stopVars

\* a query that drops its data when a refetch fails
DataAfterError_Cleared(api) == Undefined

\* useQuery keeps the data of the last successful fetch when a refetch fails
DataAfterError(api) == api

\* fetchResearchStatus throws (network error or !response.ok): data is kept
PullFailure(id) ==
  /\ mounted /\ ~effectPending
  /\ id \in inflight
  /\ inflight' = inflight \ {id}
  /\ apiStatus' = DataAfterError(apiStatus)
  /\ Render(apiStatus', wsResearchState)
  /\ UNCHANGED <<mounted, projectName, effectPending,
                 wsResearchState, isConnected, reqSeq, lastApplied,
                 latePull, latePush>>
  /\ UNCHANGED replayPending
  /\ UNCHANGED estVars
  /\ UNCHANGED modalVars
  /\ UNCHANGED stopVars

\* the response of a request issued by an earlier session arrives; the
\* body renders when the observed data changed
LatePullResponse(body) ==
  /\ latePull = "inflight"
  /\ ~effectPending
  /\ latePull' = "discarded"
  /\ apiStatus' = IF mounted THEN AcceptLate(apiStatus, body) ELSE apiStatus
  /\ IF apiStatus' # apiStatus
     THEN Render(apiStatus', wsResearchState)
     ELSE UNCHANGED <<maxProgressRef, progress>>
  /\ UNCHANGED <<mounted, projectName, effectPending, wsResearchState,
                 isConnected, reqSeq, inflight, lastApplied, latePush>>
  /\ UNCHANGED replayPending
  /\ UNCHANGED estVars
  /\ UNCHANGED modalVars
  /\ UNCHANGED stopVars

\* ---------------------------------------------------------------- push actions
Connect ==
  /\ mounted /\ ~effectPending
  /\ ~isConnected
  /\ isConnected' = TRUE
  /\ UNCHANGED <<mounted, projectName, effectPending, maxProgressRef, progress,
                 apiStatus, wsResearchState, reqSeq, inflight, lastApplied,
                 latePull, latePush>>
  /\ replayPending' = (LogsOf(wsResearchState) # << >>)
  /\ UNCHANGED estVars
  /\ UNCHANGED modalVars
  /\ UNCHANGED stopVars

Disconnect ==
  /\ mounted /\ ~effectPending
  /\ isConnected
  /\ isConnected' = FALSE
  /\ UNCHANGED <<mounted, projectName, effectPending, maxProgressRef, progress,
                 apiStatus, wsResearchState, reqSeq, inflight, lastApplied,
                 latePull, latePush>>
  /\ replayPending' = FALSE
  /\ UNCHANGED estVars
  /\ UNCHANGED modalVars
  /\ UNCHANGED stopVars

\* a research_update message of the current subscription arrives
PushMessage(m) ==
  /\ mounted /\ ~effectPending
  /\ isConnected
  /\ Len(IF wsResearchState # Undefined THEN wsResearchState.logs ELSE << >>) < MaxLogs
  /\ wsResearchState' = ApplyMessage(wsResearchState, m)
  /\ Render(apiStatus, wsResearchState')
  /\ UNCHANGED <<mounted, projectName, effectPending, apiStatus, isConnected,
                 reqSeq, inflight, lastApplied, latePull, latePush>>
  /\ UNCHANGED replayPending
  /\ UNCHANGED estVars
  /\ UNCHANGED modalVars
  /\ UNCHANGED stopVars

\* after a reconnect the server sends an event again that is already in the
\* logs: the handler is the one of every research_update message
ReplayMessage(m) ==
  /\ mounted /\ ~effectPending
  /\ isConnected /\ replayPending
  /\ \E i \in 1..Len(LogsOf(wsResearchState)) : LogsOf(wsResearchState)[i] = LogEntry(m)
  /\ Len(LogsOf(wsResearchState)) < MaxLogs
  /\ wsResearchState' = ApplyMessage(wsResearchState, m)
  /\ replayPending' = FALSE
  /\ Render(apiStatus, wsResearchState')
  /\ UNCHANGED <<mounted, projectName, effectPending, apiStatus, isConnected,
                 reqSeq, inflight, lastApplied, latePull, latePush>>
  /\ UNCHANGED estVars
  /\ UNCHANGED modalVars
  /\ UNCHANGED stopVars

\* a message sent on the socket of an earlier session arrives: that
\* subscription is closed, the message is not delivered
LatePushMessage ==
  /\ latePush = "inflight"
  /\ ~effectPending
  /\ latePush' = "discarded"
  /\ UNCHANGED <<mounted, projectName, effectPending, maxProgressRef, progress,
                 apiStatus, wsResearchState, isConnected, reqSeq, inflight,
                 lastApplied, latePull>>
  /\ UNCHANGED replayPending
  /\ UNCHANGED estVars
  /\ UNCHANGED modalVars
  /\ UNCHANGED stopVars

\* ---------------------------------------------------------------- specification
Next ==
  \/ \E p \in Projects : Mount(p)
  \/ \E p \in Projects : ChangeProject(p)
  \/ Rerender
  \/ RunEffect
  \/ Unmount
  \/ PullTick
  \/ \E id \in 1..(MaxPulls + 1), body \in StatusBodies : PullSuccess(id, body)
  \/ \E id \in 1..(MaxPulls + 1) : PullFailure(id)
  \/ \E body \in StatusBodies : LatePullResponse(body)
  \/ Connect
  \/ Disconnect
  \/ \E m \in PushMessages : PushMessage(m)
  \/ \E m \in PushMessages : ReplayMessage(m)
  \/ LatePushMessage

Spec == Init /\ [][Next]_vars

\* ---------------------------------------------------------------- calculateProgress alone
\* argument values of a stand-alone call: counts up to the bound and one
\* count far above both norms
EstCounts == (0..MaxEstCount) \cup {500}

InitEst ==
  /\ mounted = FALSE
  /\ projectName = "p1"
  /\ effectPending = FALSE
  /\ maxProgressRef = 0
  /\ progress = 0
  /\ apiStatus = Undefined
  /\ wsResearchState = Undefined
  /\ isConnected = FALSE
  /\ reqSeq = 0
  /\ inflight = {}
  /\ lastApplied = 0
  /\ latePull = "none"
  /\ latePush = "none"
  /\ replayPending = FALSE
  /\ isStopping = FALSE
  /\ stopInflight = 0
  /\ stopOutcome = "none"
  /\ location = "progress"
  /\ ModalClosed
  /\ estPhase \in Phases
  /\ estFiles \in EstCounts
  /\ estFindings \in EstCounts
  /\ estResult = -1

\* the call of line 297 with the drawn arguments
Estimate ==
  /\ estResult = -1
  /\ estResult' = calculateProgress(estPhase, estFiles, estFindings)
  /\ UNCHANGED <<mounted, projectName, effectPending, maxProgressRef, progress,
                 apiStatus, wsResearchState, isConnected, reqSeq, inflight,
                 lastApplied, latePull, latePush, replayPending,
                 estPhase, estFiles, estFindings>>
  /\ UNCHANGED stopVars
  /\ UNCHANGED modalVars

NextEst == Estimate

SpecEst == InitEst /\ [][NextEst]_vars

\* ---------------------------------------------------------------- stop request
\* how a stop request can end: response.ok, !response.ok, fetch throws
StopOutcomes == {"ok", "not_ok", "throw"}

\* a Stop button that is never disabled
StopDisabled_Never(stopping) == FALSE

\* disabled={isStopping} of line 350
StopDisabled(stopping) == stopping

\* a handler that navigates after every answer
NavigateAfter_Always(outcome) == TRUE

\* lines 271-277: navigate is called in the response.ok branch only
NavigateAfter(outcome) == outcome = "ok"

\* a click on Stop Analysis: setIsStopping(true), the request is sent
ClickStop ==
  /\ mounted /\ ~effectPending
  /\ ActionButton = "Stop Analysis"
  /\ ~StopDisabled(isStopping)
  /\ stopInflight < MaxStops
  /\ isStopping' = TRUE
  /\ stopInflight' = stopInflight + 1
  /\ Render(apiStatus, wsResearchState)
  /\ UNCHANGED <<mounted, projectName, effectPending, apiStatus, wsResearchState,
                 isConnected, reqSeq, inflight, lastApplied, latePull, latePush,
                 replayPending, stopOutcome, location>>
  /\ UNCHANGED estVars
  /\ UNCHANGED modalVars

\* the stop request is answered: navigate on response.ok, console.error
\* otherwise, setIsStopping(false) in every case; the navigation leaves the
\* progress route and the view unmounts
StopResponse(outcome) ==
  /\ mounted /\ ~effectPending
  /\ stopInflight > 0
  /\ stopInflight' = stopInflight - 1
  /\ stopOutcome' = outcome
  /\ isStopping' = FALSE
  /\ IF NavigateAfter(outcome)
     THEN /\ location' = "project"
          /\ mounted' = FALSE
          /\ maxProgressRef' = 0
          /\ progress' = 0
          /\ apiStatus' = Undefined
          /\ wsResearchState' = Undefined
          /\ isConnected' = FALSE
          /\ reqSeq' = 0
          /\ inflight' = {}
          /\ lastApplied' = 0
          /\ latePull' = IF inflight # {} THEN "inflight" ELSE latePull
          /\ latePush' = IF isConnected THEN "inflight" ELSE latePush
          /\ replayPending' = FALSE
          /\ UNCHANGED <<projectName, effectPending>>
     ELSE /\ Render(apiStatus, wsResearchState)
          /\ UNCHANGED <<mounted, projectName, effectPending, apiStatus,
                         wsResearchState, isConnected, reqSeq, inflight,
                         lastApplied, latePull, latePush, replayPending, location>>
  /\ UNCHANGED estVars
  /\ UNCHANGED modalVars

\* the view of one project after its mount and its effect
InitStop ==
  /\ mounted = TRUE
  /\ projectName = "p1"
  /\ effectPending = FALSE
  /\ maxProgressRef = 0
  /\ progress = Pct(5)
  /\ apiStatus = Undefined
  /\ wsResearchState = Undefined
  /\ isConnected = FALSE
  /\ reqSeq = 1
  /\ inflight = {1}
  /\ lastApplied = 0
  /\ latePull = "none"
  /\ latePush = "none"
  /\ replayPending = FALSE
  /\ isStopping = FALSE
  /\ stopInflight = 0
  /\ stopOutcome = "none"
  /\ location = "progress"
  /\ ModalClosed
  /\ estPhase = "idle"
  /\ estFiles = 0
  /\ estFindings = 0
  /\ estResult = -1

NextStop ==
  \/ ClickStop
  \/ \E outcome \in StopOutcomes : StopResponse(outcome)
  \/ PullTick
  \/ \E id \in 1..(MaxPulls + 1), body \in StatusBodies : PullSuccess(id, body)
  \/ \E id \in 1..(MaxPulls + 1) : PullFailure(id)
  \/ Connect
  \/ Disconnect
  \/ \E m \in PushMessages : PushMessage(m)

SpecStop == InitStop /\ [][NextStop]_vars

\* ---------------------------------------------------------------- BranchSelectionModal
ModalErrors == {"none", "select", "empty", "invalid", "exists", "create_failed", "checkout_failed"}

\* line 265
isLoading == createPending # NoBranch \/ checkoutPending # NoBranch

\* lines 178-179
isBranchProtected(data, name) == data # Undefined /\ name \in data.protected_branches

\* a modal that never asks
NeedsConfirm_Never(data, name, confirm) == FALSE

\* the test of lines 189 and 209
NeedsConfirm(data, name, confirm) == isBranchProtected(data, name) /\ ~confirm

\* a check that finds no existing branch
BranchExists_Never(data, name) == FALSE

\* line 245: branchData?.branches.some((b) => b.name === trimmedName)
BranchExists(data, name) == data # Undefined /\ name \in data.branches

\* the branch the prompt of line 346 names
PromptBranch ==
  IF selectedBranch # NoBranch THEN selectedBranch
  ELSE IF branchData # Undefined THEN branchData.current_branch ELSE NoBranch

\* onBranchSelected(branch): the parent closes the modal
OnBranchSelected(branch) ==
  /\ emitted' = Emit("onBranchSelected", branch)
  /\ isOpen' = FALSE

\* the parent opens the modal; the effect of lines 152-161 resets the state
OpenModal ==
  /\ ~isOpen
  /\ isOpen' = TRUE
  /\ step' = "select"
  /\ selectedBranch' = NoBranch
  /\ newBranchName' = SuggestedName
  /\ error' = "none"
  /\ showProtectedConfirm' = FALSE
  /\ emitted' = NoEmit
  /\ UNCHANGED <<branchData, createPending, checkoutPending>>
  /\ UNCHANGED <<viewVars, estVars, stopVars>>

\* listBranches resolves
BranchesLoaded(data) ==
  /\ isOpen
  /\ data # branchData
  /\ branchData' = data
  /\ emitted' = NoEmit
  /\ UNCHANGED <<isOpen, step, selectedBranch, newBranchName, error,
                 showProtectedConfirm, createPending, checkoutPending>>
  /\ UNCHANGED <<viewVars, estVars, stopVars>>

handleSelectBranch(branch) ==
  /\ isOpen /\ step = "select"
  /\ branchData # Undefined /\ branch \in branchData.branches
  /\ selectedBranch' = branch
  /\ error' = "none"
  /\ showProtectedConfirm' = FALSE
  /\ emitted' = NoEmit
  /\ UNCHANGED <<isOpen, step, newBranchName, branchData, createPending, checkoutPending>>
  /\ UNCHANGED <<viewVars, estVars, stopVars>>

\* Continue, or Yes, Continue on ... while the prompt is shown
handleContinueWithBranch ==
  /\ isOpen /\ step = "select"
  /\ ~isLoading
  /\ showProtectedConfirm \/ selectedBranch # NoBranch
  /\ IF selectedBranch = NoBranch
     THEN /\ error' = "select"
          /\ emitted' = NoEmit
          /\ UNCHANGED <<isOpen, showProtectedConfirm, checkoutPending>>
     ELSE IF NeedsConfirm(branchData, selectedBranch, showProtectedConfirm)
     THEN /\ showProtectedConfirm' = TRUE
          /\ emitted' = NoEmit
          /\ UNCHANGED <<isOpen, error, checkoutPending>>
     ELSE IF branchData # Undefined /\ branchData.current_branch = selectedBranch
     THEN /\ OnBranchSelected(selectedBranch)
          /\ UNCHANGED <<error, showProtectedConfirm, checkoutPending>>
     ELSE /\ checkoutPending' = selectedBranch
          /\ emitted' = Emit("checkout", selectedBranch)
          /\ UNCHANGED <<isOpen, error, showProtectedConfirm>>
  /\ UNCHANGED <<step, selectedBranch, newBranchName, branchData, createPending>>
  /\ UNCHANGED <<viewVars, estVars, stopVars>>

\* lines 443, 471: the Stay on ... button is rendered while no prompt is shown
StayVisible(confirm) == ~confirm

handleContinueOnCurrent ==
  /\ isOpen /\ step = "select"
  /\ ~isLoading
  /\ StayVisible(showProtectedConfirm)
  /\ branchData # Undefined
  /\ IF NeedsConfirm(branchData, branchData.current_branch, showProtectedConfirm)
     THEN /\ selectedBranch' = branchData.current_branch
          /\ showProtectedConfirm' = TRUE
          /\ emitted' = NoEmit
          /\ UNCHANGED isOpen
     ELSE /\ OnBranchSelected(branchData.current_branch)
          /\ UNCHANGED <<selectedBranch, showProtectedConfirm>>
  /\ UNCHANGED <<step, newBranchName, error, branchData, createPending, checkoutPending>>
  /\ UNCHANGED <<viewVars, estVars, stopVars>>

\* the Back button of line 439 while the prompt is shown
BackFromConfirm ==
  /\ isOpen /\ step = "select"
  /\ showProtectedConfirm /\ ~isLoading
  /\ showProtectedConfirm' = FALSE
  /\ emitted' = NoEmit
  /\ UNCHANGED <<isOpen, step, selectedBranch, newBranchName, error, branchData,
                 createPending, checkoutPending>>
  /\ UNCHANGED <<viewVars, estVars, stopVars>>

\* Create New Branch (disabled while loading) or Create Branch Instead
handleGoToCreate ==
  /\ isOpen /\ step = "select"
  /\ ~isLoading \/ showProtectedConfirm
  /\ step' = "create"
  /\ error' = "none"
  /\ emitted' = NoEmit
  /\ UNCHANGED <<isOpen, selectedBranch, newBranchName, showProtectedConfirm,
                 branchData, createPending, checkoutPending>>
  /\ UNCHANGED <<viewVars, estVars, stopVars>>

handleBackToSelect ==
  /\ isOpen /\ step = "create"
  /\ ~isLoading
  /\ step' = "select"
  /\ error' = "none"
  /\ emitted' = NoEmit
  /\ UNCHANGED <<isOpen, selectedBranch, newBranchName, showProtectedConfirm,
                 branchData, createPending, checkoutPending>>
  /\ UNCHANGED <<viewVars, estVars, stopVars>>

\* onChange of the name input
TypeName(name) ==
  /\ isOpen /\ step = "create"
  /\ ~isLoading
  /\ name # newBranchName
  /\ newBranchName' = name
  /\ emitted' = NoEmit
  /\ UNCHANGED <<isOpen, step, selectedBranch, error, showProtectedConfirm,
                 branchData, createPending, checkoutPending>>
  /\ UNCHANGED <<viewVars, estVars, stopVars>>

\* Create & Switch, disabled while loading or while the trimmed name is empty
handleCreateBranch ==
  /\ isOpen /\ step = "create"
  /\ ~isLoading
  /\ Trim(newBranchName) # << >>
  /\ LET trimmedName == Trim(newBranchName)
     IN IF trimmedName = << >>
        THEN error' = "empty" /\ emitted' = NoEmit /\ UNCHANGED createPending
        ELSE IF ~isValidBranchName(trimmedName)
        THEN error' = "invalid" /\ emitted' = NoEmit /\ UNCHANGED createPending
        ELSE IF BranchExists(branchData, trimmedName)
        THEN error' = "exists" /\ emitted' = NoEmit /\ UNCHANGED createPending
        ELSE /\ createPending' = trimmedName
             /\ emitted' = Emit("create", trimmedName)
             /\ UNCHANGED error
  /\ UNCHANGED <<isOpen, step, selectedBranch, newBranchName, showProtectedConfirm,
                 branchData, checkoutPending>>
  /\ UNCHANGED <<viewVars, estVars, stopVars>>

\* createBranch resolves; branch is the name in the response, empty when absent
CreateSuccess(branch) ==
  /\ isOpen /\ createPending # NoBranch
  /\ branch \in {createPending, << >>}
  /\ createPending' = NoBranch
  /\ OnBranchSelected(IF branch # << >> THEN branch ELSE newBranchName)
  /\ UNCHANGED <<step, selectedBranch, newBranchName, error, showProtectedConfirm,
                 branchData, checkoutPending>>
  /\ UNCHANGED <<viewVars, estVars, stopVars>>

CreateError ==
  /\ isOpen /\ createPending # NoBranch
  /\ createPending' = NoBranch
  /\ error' = "create_failed"
  /\ emitted' = NoEmit
  /\ UNCHANGED <<isOpen, step, selectedBranch, newBranchName, showProtectedConfirm,
                 branchData, checkoutPending>>
  /\ UNCHANGED <<viewVars, estVars, stopVars>>

\* checkoutBranch resolves; branch is current_branch of the response
CheckoutSuccess(branch) ==
  /\ isOpen /\ checkoutPending # NoBranch
  /\ branch \in {checkoutPending, << >>}
  /\ checkoutPending' = NoBranch
  /\ OnBranchSelected(IF branch # << >> THEN branch
                      ELSE IF selectedBranch # NoBranch THEN selectedBranch ELSE << >>)
  /\ UNCHANGED <<step, selectedBranch, newBranchName, error, showProtectedConfirm,
                 branchData, createPending>>
  /\ UNCHANGED <<viewVars, estVars, stopVars>>

CheckoutError ==
  /\ isOpen /\ checkoutPending # NoBranch
  /\ checkoutPending' = NoBranch
  /\ error' = "checkout_failed"
  /\ emitted' = NoEmit
  /\ UNCHANGED <<isOpen, step, selectedBranch, newBranchName, showProtectedConfirm,
                 branchData, createPending>>
  /\ UNCHANGED <<viewVars, estVars, stopVars>>

\* line 258
CloseAllowed(creating, checkingOut) == ~creating /\ ~checkingOut

\* the dialog is dismissed (onOpenChange) or Cancel is clicked
handleClose ==
  /\ isOpen
  /\ IF CloseAllowed(createPending # NoBranch, checkoutPending # NoBranch)
     THEN isOpen' = FALSE /\ emitted' = Emit("onClose", NoBranch)
     ELSE isOpen' = isOpen /\ emitted' = NoEmit
  /\ UNCHANGED <<step, selectedBranch, newBranchName, error, showProtectedConfirm,
                 branchData, createPending, checkoutPending>>
  /\ UNCHANGED <<viewVars, estVars, stopVars>>

InitModal ==
  /\ mounted = FALSE
  /\ projectName = "p1"
  /\ effectPending = FALSE
  /\ maxProgressRef = 0
  /\ progress = 0
  /\ apiStatus = Undefined
  /\ wsResearchState = Undefined
  /\ isConnected = FALSE
  /\ reqSeq = 0
  /\ inflight = {}
  /\ lastApplied = 0
  /\ latePull = "none"
  /\ latePush = "none"
  /\ replayPending = FALSE
  /\ isStopping = FALSE
  /\ stopInflight = 0
  /\ stopOutcome = "none"
  /\ location = "progress"
  /\ estPhase = "idle"
  /\ estFiles = 0
  /\ estFindings = 0
  /\ estResult = -1
  /\ ModalClosed

NextModal ==
  \/ OpenModal
  \/ \E data \in BranchDataSet : BranchesLoaded(data)
  \/ \E branch \in BranchNames : handleSelectBranch(branch)
  \/ handleContinueWithBranch
  \/ handleContinueOnCurrent
  \/ BackFromConfirm
  \/ handleGoToCreate
  \/ handleBackToSelect
  \/ \E name \in NameInputs : TypeName(name)
  \/ handleCreateBranch
  \/ \E branch \in BranchNames \cup NameInputs \cup {SuggestedName, << >>} : CreateSuccess(branch)
  \/ CreateError
  \/ \E branch \in BranchNames \cup {<< >>} : CheckoutSuccess(branch)
  \/ CheckoutError
  \/ handleClose

SpecModal == InitModal /\ [][NextModal]_vars

TypeOK ==
  /\ mounted \in BOOLEAN
  /\ projectName \in Projects
  /\ effectPending \in BOOLEAN
  /\ maxProgressRef \in 0..Pct(100)
  /\ progress \in 0..Pct(100)
  /\ isConnected \in BOOLEAN
  /\ reqSeq \in 0..MaxPulls
  /\ inflight \subseteq 1..MaxPulls
  /\ lastApplied \in 0..MaxPulls
  /\ latePull \in {"none", "inflight", "discarded"}
  /\ latePush \in {"none", "inflight", "discarded"}
  /\ replayPending \in BOOLEAN
  /\ isStopping \in BOOLEAN
  /\ stopInflight \in 0..MaxStops
  /\ stopOutcome \in {"none", "ok", "not_ok", "throw"}
  /\ location \in {"progress", "project"}
  /\ isOpen \in BOOLEAN
  /\ step \in {"select", "create"}
  /\ selectedBranch \in BranchNames \cup {NoBranch}
  /\ newBranchName \in NameInputs \cup {SuggestedName, << >>}
  /\ error \in ModalErrors
  /\ showProtectedConfirm \in BOOLEAN
  /\ branchData \in BranchDataSet \cup {Undefined}
  /\ createPending \in {Trim(n) : n \in NameInputs \cup {SuggestedName}} \cup {NoBranch}
  /\ checkoutPending \in BranchNames \cup {NoBranch}
  /\ emitted.kind \in {"none", "onBranchSelected", "checkout", "create", "onClose"}
  /\ apiStatus \in StatusBodies \cup {Undefined}

\* ================================================================ claims
\* a step that stays inside one session: same instance, same projectName
SameSession == mounted /\ mounted' /\ projectName' = projectName

\* a step that applies a pulled snapshot
PullApplied == SameSession /\ lastApplied' # lastApplied

\* a step that applies a pushed message
PushApplied == SameSession /\ wsResearchState' # wsResearchState /\ wsResearchState' # Undefined

\* C1: inside one session, an emission in which no reset condition is
\* detected never shows less progress than the emission before it, also when
\* its raw estimate is lower.
C1_MonotonicGuard ==
  [][(SameSession /\ ~ResetDetected(researchState')) => progress' >= progress]_vars

\* a raw estimate below the shown progress, with no reset detected
C1_Witness ==
  mounted /\ ~effectPending /\ ~ResetDetected(researchState) /\ rawProgress < progress

\* C2: in every emission with a reset condition active (phase idle, scanning
\* with no findings, or the first emission after attach) the shown progress is
\* exactly the raw estimate of that emission.
C2_ResetShowsRaw ==
  (mounted /\ (ResetDetected(researchState) \/ effectPending)) => progress = rawProgress

\* C3: once a pulled snapshot has been applied in the session, phase,
\* filesScanned, findingsCount and finalized of the reconciled state are the
\* values that snapshot carries, whatever the push state holds.
C3_SourceOwnership ==
  (mounted /\ lastApplied > 0) =>
     /\ ("phase" \in DOMAIN apiStatus => researchState.phase = apiStatus.phase)
     /\ ("files_scanned" \in DOMAIN apiStatus =>
            researchState.filesScanned = apiStatus.files_scanned)
     /\ ("findings_count" \in DOMAIN apiStatus =>
            researchState.findingsCount = apiStatus.findings_count)
     /\ ("finalized" \in DOMAIN apiStatus =>
            researchState.finalized = apiStatus.finalized)

\* pulled and pushed values disagree on phase and on both counters
C3_Witness ==
  /\ mounted /\ lastApplied > 0
  /\ wsResearchState # Undefined
  /\ apiStatus = [phase |-> "analyzing", files_scanned |-> 25,
                  findings_count |-> 3, finalized |-> FALSE]
  /\ wsResearchState.phase = "scanning"
  /\ wsResearchState.filesScanned = 999
  /\ researchState.filesScanned = 25

\* C4: before the first pulled snapshot of the session, when push state
\* exists, the reconciled state has the push state's logs and currentTool
\* and both counters at 0.
C4_NoApiFallback ==
  (mounted /\ apiStatus = Undefined /\ wsResearchState # Undefined) =>
     /\ researchState.logs = wsResearchState.logs
     /\ researchState.currentTool = wsResearchState.currentTool
     /\ researchState.filesScanned = 0
     /\ researchState.findingsCount = 0

\* push state with non-zero counters and no pulled snapshot yet
C4_Witness ==
  /\ mounted /\ ~effectPending /\ lastApplied = 0 /\ apiStatus = Undefined
  /\ wsResearchState # Undefined
  /\ wsResearchState.filesScanned = 999
  /\ wsResearchState.findingsCount = 999
  /\ Len(wsResearchState.logs) = 2

LateArrival ==
  \/ (latePull = "inflight" /\ latePull' = "discarded")
  \/ (latePush = "inflight" /\ latePush' = "discarded")

C7_LogAppendOnly ==
  [][SameSession => IsPrefix(LogsOf(researchState), LogsOf(researchState'))]_vars

\* C8: the first emission of a session shows an empty log: no entry of an
\* earlier session is carried over.
C8_NoLogCarryOver ==
  (mounted /\ effectPending) => LogsOf(researchState) = << >>

\* a step that attaches: a mount or a change of projectName
Attach == mounted' /\ (~mounted \/ projectName' # projectName)

\* C9: attach zeroes the guard before the first progress of the new session
\* is shown: that progress is what a guard starting at 0 returns.
C9_AttachResetsGuard ==
  [][Attach => progress' = Guard(0, researchState')]_vars

\* C10: pulled {scanning, 0, 0} shows 5; a pushed message after it makes the
\* log exactly that message and leaves 5; pulled {scanning, files 25} after
\* that shows 15.
C10_EndToEnd ==
  [][/\ (PullApplied /\ "phase" \in DOMAIN apiStatus' /\ apiStatus'.phase = "scanning"
           /\ Get(apiStatus', "files_scanned", 0) = 0
           /\ Get(apiStatus', "findings_count", 0) = 0)
        => progress' = Pct(5)
     /\ \A m \in PushMessages :
          (PushApplied /\ lastApplied > 0 /\ currentPhase = "scanning"
             /\ researchState.filesScanned = 0 /\ researchState.findingsCount = 0
             /\ LogsOf(researchState) = << >>
             /\ wsResearchState' = ApplyMessage(wsResearchState, m))
          => (LogsOf(researchState') = <<LogEntry(m)>> /\ progress' = progress)
     /\ (PullApplied /\ progress = Pct(5)
           /\ "phase" \in DOMAIN apiStatus' /\ apiStatus'.phase = "scanning"
           /\ Get(apiStatus', "files_scanned", 0) = 25)
        => progress' = Pct(15)]_vars

\* the end of the scenario: second snapshot applied, one log entry, 15 shown
C10_Witness ==
  /\ mounted /\ lastApplied = 2
  /\ apiStatus = [phase |-> "scanning", files_scanned |-> 25,
                  findings_count |-> 0, finalized |-> FALSE]
  /\ Len(LogsOf(researchState)) = 1
  /\ progress = Pct(15)

\* ---------------------------------------------------------------- estimator claims
SCAN_NORM == 50
FINDINGS_NORM == 25

\* clamp(x / norm, 0, 1) * width on non-negative integers
ClampedShare(x, norm, width) == (Min2(x, norm) * width) \div norm

\* the estimate policy, phase by phase, over the intervals of PHASE_CONFIG
ReferenceEstimate(phase, filesScanned, findingsCount) ==
  LET lo == PHASE_CONFIG[phase].progressMin
      hi == PHASE_CONFIG[phase].progressMax
  IN CASE phase = "idle"        -> Pct(5)
       [] phase = "scanning"    -> lo + ClampedShare(filesScanned, SCAN_NORM, hi - lo)
       [] phase = "analyzing"   -> lo + ClampedShare(findingsCount, FINDINGS_NORM, hi - lo)
       [] phase = "documenting" -> Pct(85)
       [] phase = "complete"    -> Pct(100)

\* C11: for every phase and all non-negative counters calculateProgress
\* returns the value of the policy: 5, 5 + 20 * clamp(files / 50),
\* 25 + 50 * clamp(findings / 25), 85, 100.
C11_EstimatorPolicy ==
  estResult # -1 => estResult = ReferenceEstimate(estPhase, estFiles, estFindings)

\* scanning with 500 files has been estimated at the clamped 25
C11_Witness ==
  estPhase = "scanning" /\ estFiles = 500 /\ estResult = Pct(25)

\* C12: the estimate lies inside the progress interval of its own phase,
\* and so inside [0, 100].
C12_EstimateInPhaseInterval ==
  estResult # -1 =>
     /\ PHASE_CONFIG[estPhase].progressMin <= estResult
     /\ estResult <= PHASE_CONFIG[estPhase].progressMax
     /\ Pct(0) <= estResult /\ estResult <= Pct(100)

\* analyzing with more findings than the norm sits on the upper end 75
C12_Witness ==
  estPhase = "analyzing" /\ estFindings > FINDINGS_NORM /\ estResult = Pct(75)

\* ---------------------------------------------------------------- session claims, continued
\* C13 as stated: inside one session the shown progress never decreases from
\* one emission to the next, whatever the snapshots report.
C13_NeverDecreases ==
  [][SameSession => progress' >= progress]_vars

\* C13 amended: inside one session the shown progress decreases only in an
\* emission that detects a reset (phase idle, or scanning with no findings),
\* and that emission shows exactly its raw estimate.
C13_DecreasesOnlyOnReset ==
  [][SameSession =>
       \/ progress' >= progress
       \/ (ResetDetected(researchState') /\ progress' = RawOf(researchState'))]_vars

\* a second snapshot that reports idle is shown at 5
C13_Witness ==
  /\ mounted /\ lastApplied = 2
  /\ apiStatus = [phase |-> "idle", files_scanned |-> 25,
                  findings_count |-> 3, finalized |-> FALSE]
  /\ progress = Pct(5)

\* C14: the reconciled phase is never taken from a pushed message: it is the
\* pulled phase, and the default idle while no snapshot has arrived.
C14_PhaseNotFromPush ==
  mounted =>
    currentPhase = (IF apiStatus # Undefined THEN Get(apiStatus, "phase", "idle") ELSE "idle")

\* C16: logs and currentTool of the reconciled state are those of the push
\* state (empty and null without push state), and a step that applies a
\* pulled snapshot leaves both as they were.
C16_PushOwnsLogsAndTool ==
  [][/\ mounted' =>
          /\ LogsOf(researchState') =
               (IF wsResearchState' # Undefined THEN wsResearchState'.logs ELSE << >>)
          /\ ToolOf(researchState') =
               (IF wsResearchState' # Undefined THEN wsResearchState'.currentTool ELSE "null")
     /\ PullApplied =>
          /\ LogsOf(researchState') = LogsOf(researchState)
          /\ ToolOf(researchState') = ToolOf(researchState)]_vars

\* two snapshots applied over a push state with two entries and a tool
C16_Witness ==
  /\ mounted /\ lastApplied = 2
  /\ wsResearchState # Undefined
  /\ Len(LogsOf(researchState)) = 2
  /\ ToolOf(researchState) = "Read"

\* C17: with a pulled snapshot and a pushed message both pending, applying
\* them in either order shows the same reconciled state and progress.
C17_PullPushCommute ==
  (mounted /\ ~effectPending /\ inflight # {} /\ isConnected
     /\ Len(LogsOf(researchState)) < MaxLogs) =>
    LET cur == Held(apiStatus, wsResearchState, maxProgressRef)
    IN \A body \in StatusBodies, m \in PushMessages :
         Shown(AfterPush(AfterPull(cur, body), m)) = Shown(AfterPull(AfterPush(cur, m), body))

\* the place of a phase in the order of the interval minima
Rank(p) ==
  Cardinality({q \in Phases : PHASE_CONFIG[q].progressMin < PHASE_CONFIG[p].progressMin})

\* C20: the interval minima order the phases idle < scanning < analyzing <
\* documenting < complete, and inside one session the rank of the reconciled
\* phase never decreases.
C20_PhaseRankNeverDecreases ==
  [][/\ Rank("idle") < Rank("scanning") /\ Rank("scanning") < Rank("analyzing")
     /\ Rank("analyzing") < Rank("documenting") /\ Rank("documenting") < Rank("complete")
     /\ SameSession => Rank(currentPhase') >= Rank(currentPhase)]_vars

\* C15: the shown progress depends on pulled data only: two continuations of a
\* session that differ in the pushed message (or have none) and then apply
\* the same pulled snapshot show the same progress.
C15_ProgressFromPulledOnly ==
  (mounted /\ ~effectPending /\ inflight # {} /\ isConnected
     /\ Len(LogsOf(researchState)) < MaxLogs) =>
    LET cur == Held(apiStatus, wsResearchState, maxProgressRef)
    IN \A body \in StatusBodies, m \in PushMessages :
         Shown(AfterPull(AfterPush(cur, m), body)).progress = Shown(AfterPull(cur, body)).progress

\* C18: while the socket is disconnected the status query stays enabled and a
\* refetch starts whenever none is in flight; a pulled snapshot applied
\* during the outage sets the reconciled phase and counters and the shown
\* progress; isConnected is true after a reconnect and no pull result changes it.
C18_PullsUnaffectedByOutage ==
  [][/\ (mounted /\ ~effectPending /\ ~isConnected /\ inflight = {} /\ reqSeq < MaxPulls)
          => ENABLED PullTick
     /\ (PullApplied /\ ~isConnected) =>
          /\ PhaseOf(researchState') = Get(apiStatus', "phase", "idle")
          /\ FilesOf(researchState') = Get(apiStatus', "files_scanned", 0)
          /\ FindingsOf(researchState') = Get(apiStatus', "findings_count", 0)
          /\ progress' = Guard(maxProgressRef, researchState')
     /\ PullApplied => isConnected' = isConnected
     /\ (SameSession /\ ~isConnected /\ isConnected') => UNCHANGED <<apiStatus, lastApplied, progress>>]_vars

\* the socket is down after messages were recorded, and the second snapshot
\* is shown
C18_Witness ==
  /\ mounted /\ ~isConnected /\ lastApplied = 2
  /\ Len(LogsOf(researchState)) = 1
  /\ PhaseOf(researchState) = "analyzing"
  /\ FindingsOf(researchState) = 3
  /\ progress = Pct(31)

\* a step in which an already recorded event is delivered again
ReplayStep ==
  SameSession /\ replayPending /\ ~replayPending' /\ isConnected'
    /\ wsResearchState' # wsResearchState

\* C19: after a disconnect and a reconnect inside one session, an event that
\* is sent again leaves the logs as they were: no entry is added twice and
\* none is removed.
C19_ReplayAddsNoDuplicate ==
  [][ReplayStep => LogsOf(researchState') = LogsOf(researchState)]_vars

\* ---------------------------------------------------------------- completion and bounds
\* C21: whenever the snapshot in use reports phase complete, the view shows
\* phase complete, progress exactly 100 and the View Results button, whatever
\* the push state and the stored maximum are.
C21_NoStaleInProgress ==
  (mounted /\ apiStatus # Undefined /\ Get(apiStatus, "phase", "idle") = "complete") =>
    /\ currentPhase = "complete"
    /\ progress = Pct(100)
    /\ ActionButton = "View Results"

\* the snapshot says complete while the last pushed message said analyzing
C21_Witness ==
  /\ mounted /\ lastApplied > 0
  /\ Get(apiStatus, "phase", "idle") = "complete"
  /\ wsResearchState # Undefined /\ wsResearchState.phase = "analyzing"
  /\ progress = Pct(100) /\ ActionButton = "View Results"

\* C27: in every emission the shown progress is at least the raw estimate of
\* the reconciled state and lies in [5, 100], also before any data arrived.
C27_ProgressBounds ==
  mounted => (progress >= rawProgress /\ Pct(5) <= progress /\ progress <= Pct(100))

\* mounted with neither a snapshot nor a pushed message: 5 is shown
C27_Witness ==
  /\ mounted /\ ~effectPending
  /\ apiStatus = Undefined /\ wsResearchState = Undefined
  /\ rawProgress = Pct(5) /\ progress = Pct(5)

\* ---------------------------------------------------------------- pull errors
\* the reconciled value that belongs to a field of the status body
ReconciledField(rs, f) ==
  CASE f = "phase"          -> PhaseOf(rs)
    [] f = "files_scanned"  -> FilesOf(rs)
    [] f = "findings_count" -> FindingsOf(rs)
    [] f = "finalized"      -> IF rs # Undefined /\ "finalized" \in DOMAIN rs
                               THEN rs.finalized ELSE FALSE

\* C22: when a pulled body lacks a required field after a complete snapshot,
\* the reconciled value of that field stays what it was and the shown
\* progress does not change.
C22_MalformedKeepsLastGood ==
  [][(PullApplied /\ apiStatus # Undefined /\ DOMAIN apiStatus = Fields
        /\ DOMAIN apiStatus' # Fields) =>
       /\ \A f \in Fields \ DOMAIN apiStatus' :
            ReconciledField(researchState', f) = ReconciledField(researchState, f)
       /\ progress' = progress]_vars

\* a step in which a status request ends without a snapshot being applied
PullFailed ==
  SameSession /\ inflight' # inflight /\ inflight' \subseteq inflight
    /\ lastApplied' = lastApplied

\* C23: a failed status request leaves the snapshot in use, the reconciled
\* phase and counters and the shown progress as they were, the counters stay
\* those of the snapshot, and the next refetch can start.
C23_PullFailureNonFatal ==
  [][/\ (PullFailed /\ apiStatus # Undefined) =>
          /\ apiStatus' = apiStatus
          /\ PhaseOf(researchState') = PhaseOf(researchState)
          /\ FilesOf(researchState') = Get(apiStatus, "files_scanned", 0)
          /\ FindingsOf(researchState') = Get(apiStatus, "findings_count", 0)
          /\ progress' = progress
     /\ (mounted /\ ~effectPending /\ inflight = {} /\ lastApplied < reqSeq
           /\ reqSeq < MaxPulls) => ENABLED PullTick]_vars

\* the second request failed: the first snapshot is still shown, beside a
\* push state with other counters
C23_Witness ==
  /\ mounted /\ ~effectPending
  /\ reqSeq = 2 /\ inflight = {} /\ lastApplied = 1
  /\ wsResearchState # Undefined
  /\ PhaseOf(researchState) = "analyzing" /\ FindingsOf(researchState) = 3
  /\ progress = Pct(31)

EstProbes == {0, 1, SCAN_NORM, MaxEstCount, 500}

\* C28: the estimate does not decrease when filesScanned or findingsCount
\* grows inside a phase, and the estimate of a phase is at most the estimate
\* of every later phase, whatever the counters of either are.
C28_EstimatorMonotone ==
  estResult # -1 =>
    /\ \A c \in EstCounts :
          /\ c >= estFiles => calculateProgress(estPhase, c, estFindings) >= estResult
          /\ c >= estFindings => calculateProgress(estPhase, estFiles, c) >= estResult
    /\ \A q \in Phases : \A f \in EstProbes, g \in EstProbes :
          PHASE_CONFIG[q].progressMin > PHASE_CONFIG[estPhase].progressMin =>
            calculateProgress(q, f, g) >= estResult

\* scanning at its upper end meets analyzing at its lower end
C28_Witness ==
  /\ estPhase = "scanning" /\ estFiles = SCAN_NORM /\ estFindings = 500
  /\ estResult = Pct(25)
  /\ calculateProgress("analyzing", 0, 0) = estResult

\* ---------------------------------------------------------------- stop request claims
\* a step in which a stop request is answered
StopAnswered == stopInflight' < stopInflight

\* C24: when a stop request ends with a non-OK response or a thrown error,
\* the snapshot, the push state with its logs, the stored maximum and the
\* shown progress are unchanged and the view stays on the progress route;
\* the route changes only in a step that answers a stop request with OK.
C24_StopFailureLeavesState ==
  [][/\ (StopAnswered /\ stopOutcome' \in {"not_ok", "throw"}) =>
          /\ mounted' /\ location' = location
          /\ apiStatus' = apiStatus /\ wsResearchState' = wsResearchState
          /\ researchState' = researchState
          /\ maxProgressRef' = maxProgressRef /\ progress' = progress
     /\ location' # location => (StopAnswered /\ stopOutcome' = "ok")]_vars

\* a stop request failed over a view that holds a snapshot, a log entry and
\* a maximum above its raw estimate
C24_Witness ==
  /\ mounted /\ stopOutcome \in {"not_ok", "throw"} /\ location = "progress"
  /\ apiStatus # Undefined /\ Len(LogsOf(researchState)) > 0
  /\ maxProgressRef > rawProgress

\* C29: in the mounted view isStopping is true exactly while a stop request
\* is in flight, so it is false again after every answer, and at most one
\* stop request is in flight.
C29_StopLifecycle ==
  mounted => ((isStopping <=> stopInflight > 0) /\ stopInflight <= 1)

\* a second click is possible after a failed request
C29_Witness ==
  /\ mounted /\ isStopping /\ stopInflight = 1
  /\ stopOutcome \in {"not_ok", "throw"}

\* ---------------------------------------------------------------- modal claims
\* a click in the select step hands branch to onBranchSelected or to checkout
ClickPass(branch) ==
  /\ step = "select" /\ ~isLoading
  /\ emitted'.kind \in {"onBranchSelected", "checkout"}
  /\ emitted'.arg = branch

\* C26: in the select step a click hands a protected branch to
\* onBranchSelected or to checkout only while the confirmation prompt for
\* that branch is shown, and the click that raises the prompt hands over
\* nothing, starts no checkout and leaves the modal open.
C26_ProtectedNeedsConfirm ==
  [][/\ \A branch \in BranchNames :
          (ClickPass(branch) /\ isBranchProtected(branchData, branch)) =>
            (showProtectedConfirm /\ PromptBranch = branch)
     /\ (~showProtectedConfirm /\ showProtectedConfirm') =>
          (emitted' = NoEmit /\ checkoutPending' = checkoutPending /\ isOpen')]_vars

\* the protected current branch was handed over from the prompt
C26_Witness ==
  /\ ~isOpen /\ showProtectedConfirm
  /\ selectedBranch = << "m" >>
  /\ isBranchProtected(branchData, << "m" >>)
  /\ emitted = Emit("onBranchSelected", << "m" >>)

\* the name is refused by handleCreateBranch
Rejected(name) ==
  \/ name = << >>
  \/ ~isValidBranchName(name)
  \/ (branchData # Undefined /\ name \in branchData.branches)

\* C30: a create request carries the trimmed name, which is non-empty, valid
\* and not in the loaded branch list; a refused name sets an error, sends no
\* request and calls no callback; while a create or checkout request is
\* pending onClose is not called.
C30_CreateGuarded ==
  [][/\ emitted'.kind = "create" =>
          /\ emitted'.arg = Trim(newBranchName)
          /\ ~Rejected(emitted'.arg)
     /\ (handleCreateBranch /\ Rejected(Trim(newBranchName))) =>
          /\ error' \in {"empty", "invalid", "exists"}
          /\ emitted' = NoEmit
          /\ createPending' = NoBranch
          /\ isOpen'
     /\ (isLoading /\ isOpen) => (emitted'.kind # "onClose" /\ (isOpen' \/ emitted'.kind = "onBranchSelected"))]_vars

\* a typed name that trims to an existing branch was refused
C30_Witness ==
  /\ isOpen /\ step = "create"
  /\ newBranchName = << " ", "d" >>
  /\ error = "exists"
  /\ createPending = NoBranch /\ emitted = NoEmit

====
